---- MODULE Spec2Model ----
(***************************************************************************)
(* Model of ndarray-rblas (src/ndarray-rblas/src/lib.rs): the conversion   *)
(* of an ndarray array into a BLAS vector / matrix descriptor.             *)
(*                                                                         *)
(* An array is a record                                                    *)
(*     [ptr, shape, strides, elems]                                        *)
(* ptr is the identity of the storage the array's first element lives in   *)
(* (a fresh number for every allocation), shape and strides are sequences  *)
(* with one entry per axis, strides are signed and counted in elements     *)
(* from the first element.  The storage the caller built the array on is   *)
(* allocation 0 and holds pairwise distinct elements: the element at       *)
(* position p (relative to the first element) is the number p, and elems   *)
(* is empty.  A storage made by from_vec_dim holds the vector it was given *)
(* in elems.                                                               *)
(*                                                                         *)
(* c_int is modelled with CIntBits bits (two's complement); Ix and Ixs are *)
(* wider than every value the model uses, as usize/isize are wider than    *)
(* c_int on the 64 bit targets where the range check matters.              *)
(***************************************************************************)
EXTENDS Integers, Sequences, FiniteSets, TLC

VARIABLES arr, pre, res, acc, pc, calls

vars == <<arr, pre, res, acc, pc, calls>>

\* ------------------------------------------------------------------ bounds
\* Width of the modelled c_int in bits.
CIntBits == 4
\* Number of entry point calls made on the array in one behaviour.
MaxCalls == 2

RECURSIVE Pow2(_)
Pow2(n) == IF n = 0 THEN 1 ELSE 2 * Pow2(n - 1)

\* c_int::max_value()
CIntMax == Pow2(CIntBits - 1) - 1
\* c_int::min_value()
CIntMin == -Pow2(CIntBits - 1)

\* `x as c_int`: truncation to CIntBits bits, two's complement.
CastCInt(x) == ((x + Pow2(CIntBits - 1)) % Pow2(CIntBits)) - Pow2(CIntBits - 1)

\* ------------------------------------------------------- the arrays tried
Ranks == 0 .. 3
DimValsOf(r) == IF r <= 2 THEN {0, 1, 2, 3, CIntMax + 1}
                          ELSE {1, 3, CIntMax + 1}
StrideValsOf(r) == IF r <= 2 THEN {CIntMin - 1, CIntMin, -1, 1, 2, 3, CIntMax + 1}
                             ELSE {-1, 1, 3, CIntMax + 1}

\* ------------------------------------------------ the array abstraction
RECURSIVE ProdFrom(_, _)
\* product of shape[k], ..., shape[Len(shape)]
ProdFrom(shape, k) == IF k > Len(shape) THEN 1 ELSE shape[k] * ProdFrom(shape, k + 1)

\* ArrayBase::len(): the number of elements
Size(shape) == ProdFrom(shape, 1)

\* Dimension::default_strides(): shape (a, b, c) gives strides (b * c, c, 1)
DefaultStrides(shape) == [k \in 1 .. Len(shape) |-> ProdFrom(shape, k + 1)]

\* the multi-index of the n-th element (n from 0) in logical, row-major order
Unravel(shape, n) ==
    [k \in 1 .. Len(shape) |-> (n \div ProdFrom(shape, k + 1)) % shape[k]]

RECURSIVE Dot(_, _, _)
Dot(idx, strides, k) ==
    IF k > Len(idx) THEN 0 ELSE idx[k] * strides[k] + Dot(idx, strides, k + 1)

\* position, relative to the first element, of the element with index idx
Pos(a, idx) == Dot(idx, a.strides, 1)

\* the element stored at position p of the array's storage
ReadAt(a, p) == IF a.elems = <<>> THEN p ELSE a.elems[p + 1]

\* a.iter().cloned().collect(): the elements in logical order
Iter(a) ==
    [n \in 1 .. Size(a.shape) |-> ReadAt(a, Pos(a, Unravel(a.shape, n - 1)))]

\* ArrayBase::is_standard_layout()
IsStandardLayout(a) == a.strides = DefaultStrides(a.shape)

\* ArrayBase::from_vec_dim(d, v).unwrap(): a fresh storage holding v, with
\* the canonical strides of d.  The Vec and its length come from iter().
FromVecDim(d, v, fresh) ==
    [ptr |-> fresh, shape |-> d, strides |-> DefaultStrides(d), elems |-> v]

\* ArrayBase::view() / view_mut(): pointer, shape and strides of the array
View(a) == [ptr |-> a.ptr, shape |-> a.shape, strides |-> a.strides]

Ndim(a) == Len(a.shape)

\* no two indices of the array name the same storage position
NoAlias(shape, strides) ==
    LET a == [strides |-> strides]
    IN  Cardinality({Pos(a, Unravel(shape, n)) : n \in 0 .. Size(shape) - 1})
            = Size(shape)

\* ---------------------------------------------------------------- results
Ok(v, m) == [status |-> "Ok", view |-> <<v>>, mutable |-> m]
Err(kind) == [status |-> kind, view |-> <<>>, mutable |-> FALSE]

\* ------------------------------------------------------- lib.rs, helpers
\* is_inner_contiguous, with the comparison of the inner length off by one
is_inner_contiguous_lt(a) ==
    LET ndim == Ndim(a)
    IN  IF ndim = 0 THEN TRUE
        ELSE a.shape[ndim] < 1 \/ a.strides[ndim] = 1

\* is_inner_contiguous
is_inner_contiguous(a) ==
    LET ndim == Ndim(a)
    IN  IF ndim = 0 THEN TRUE
        ELSE a.shape[ndim] <= 1 \/ a.strides[ndim] = 1

\* ensure_standard_layout that rewrites the strides and copies nothing
\* (what the commented-out blas_overwrite would do)
ensure_standard_layout_overwrite(a) ==
    IF ~IsStandardLayout(a)
    THEN [a EXCEPT !.strides = DefaultStrides(a.shape)]
    ELSE a

\* ensure_standard_layout without the test: it copies every time
ensure_standard_layout_always(a) ==
    FromVecDim(a.shape, Iter(a), a.ptr + 1)

\* ensure_standard_layout
ensure_standard_layout(a) ==
    IF ~IsStandardLayout(a)
    THEN FromVecDim(a.shape, Iter(a), a.ptr + 1)
    ELSE a

\* size_check that looks at the shape only
size_check_shape_only(v) ==
    IF \E k \in 1 .. Ndim(v) : v.shape[k] > CIntMax
    THEN "RangeLimited"
    ELSE "Ok"

\* Priv::size_check: dim is unsigned (Ix), stride is signed (Ixs)
size_check(v) ==
    IF \E k \in 1 .. Ndim(v) : v.shape[k] > CIntMax \/ v.strides[k] > CIntMax
    THEN "RangeLimited"
    ELSE "Ok"

\* Priv::contiguous_check
contiguous_check(v) ==
    IF is_inner_contiguous(v) THEN "Ok" ELSE "IncompatibleLayout"

\* into_blas_view that asks for contiguity from rank 1 on
into_blas_view_rank1(v) ==
    IF Ndim(v) > 0 /\ contiguous_check(v) # "Ok" THEN Err(contiguous_check(v))
    ELSE IF size_check(v) # "Ok" THEN Err(size_check(v))
    ELSE Ok(v, FALSE)

\* Priv<ArrayView>::into_blas_view
into_blas_view(v) ==
    IF Ndim(v) > 1 /\ contiguous_check(v) # "Ok" THEN Err(contiguous_check(v))
    ELSE IF size_check(v) # "Ok" THEN Err(size_check(v))
    ELSE Ok(v, FALSE)

\* Priv<ArrayViewMut>::into_blas_view_mut
into_blas_view_mut(v) ==
    IF Ndim(v) > 1 /\ contiguous_check(v) # "Ok" THEN Err(contiguous_check(v))
    ELSE IF size_check(v) # "Ok" THEN Err(size_check(v))
    ELSE Ok(v, TRUE)

\* ------------------------------------------------- lib.rs, impl AsBlas
\* blas_checked that never normalizes a matrix
blas_checked_no_copy(a) ==
    IF size_check(View(a)) # "Ok"
    THEN [arr |-> a, result |-> Err(size_check(View(a)))]
    ELSE LET a1 == IF Ndim(a) <= 2 THEN a ELSE ensure_standard_layout(a)
         IN  [arr |-> a1, result |-> into_blas_view_mut(View(a1))]

\* AsBlas::blas_checked: the array after the call, and the result
blas_checked(a) ==
    IF size_check(View(a)) # "Ok"
    THEN [arr |-> a, result |-> Err(size_check(View(a)))]
    ELSE LET a1 == IF Ndim(a) <= 1 THEN a
                   ELSE IF Ndim(a) = 2
                        THEN IF ~is_inner_contiguous(a)
                             THEN ensure_standard_layout(a)
                             ELSE a
                        ELSE ensure_standard_layout(a)
         IN  [arr |-> a1, result |-> into_blas_view_mut(View(a1))]

\* AsBlas::blas_view_checked
blas_view_checked(a) == [arr |-> a, result |-> into_blas_view(View(a))]

\* AsBlas::blas_view_mut_checked
blas_view_mut_checked(a) == [arr |-> a, result |-> into_blas_view_mut(View(a))]

\* ------------------------------------- lib.rs, impl Vector / impl Matrix
Value(x) == [panicked |-> FALSE, val |-> <<x>>]
Panic == [panicked |-> TRUE, val |-> <<>>]

\* Vector::len, for BlasArrayView and BlasArrayViewMut alike
Vector_len(v) == Value(CastCInt(Size(v.shape)))

\* Vector::inc
Vector_inc(v) == Value(CastCInt(v.strides[1]))

\* Matrix::rows
Matrix_rows(v) == Value(CastCInt(v.shape[1]))

\* Matrix::cols
Matrix_cols(v) == Value(CastCInt(v.shape[2]))

\* Matrix::lead_dim, with its debug_assert
Matrix_lead_dim(v) ==
    IF ~(Matrix_cols(v).val[1] <= 1 \/ v.strides[2] = 1) THEN Panic
    ELSE Value(CastCInt(v.strides[1]))

\* as_ptr of all four impls
as_ptr(v) == Value(v.ptr)

\* as_mut_ptr of a read-only adapter that hands the pointer out
View_as_mut_ptr_cast(v) == Value(v.ptr)

\* as_mut_ptr of BlasArrayView (Vector and Matrix)
View_as_mut_ptr(v) == Panic

\* as_mut_ptr of BlasArrayViewMut (Vector and Matrix)
ViewMut_as_mut_ptr(v) == Value(v.ptr)

\* ------------------------------------------------------------ the state
NoRes == [op |-> "none", status |-> "none", view |-> <<>>, mutable |-> FALSE]
NoAcc == [name |-> "none", panicked |-> FALSE, val |-> <<>>]

Init ==
    /\ \E r \in Ranks :
         \E shape \in [1 .. r -> DimValsOf(r)], strides \in [1 .. r -> StrideValsOf(r)] :
            /\ NoAlias(shape, strides)
            /\ arr = [ptr |-> 0, shape |-> shape, strides |-> strides, elems |-> <<>>]
    /\ pre = arr
    /\ res = NoRes
    /\ acc = NoAcc
    /\ pc = "idle"
    /\ calls = 0

\* one call of an entry point on the array
Call(op, out) ==
    /\ pc = "idle"
    /\ calls < MaxCalls
    /\ pre' = arr
    /\ arr' = out.arr
    /\ res' = [op |-> op, status |-> out.result.status,
               view |-> out.result.view, mutable |-> out.result.mutable]
    /\ acc' = NoAcc
    /\ pc' = "returned"
    /\ calls' = calls + 1

BlasChecked == Call("blas_checked", blas_checked(arr))

BlasViewChecked == Call("blas_view_checked", blas_view_checked(arr))

BlasViewMutChecked == Call("blas_view_mut_checked", blas_view_mut_checked(arr))

\* a call of one accessor of the adapter the last call returned
Access(name, rank, out) ==
    /\ pc = "returned"
    /\ res.status = "Ok"
    /\ Ndim(res.view[1]) = rank
    /\ acc' = [name |-> name, panicked |-> out.panicked, val |-> out.val]
    /\ UNCHANGED <<arr, pre, res, pc, calls>>

VectorLen == Access("len", 1, Vector_len(res.view[1]))

VectorInc == Access("inc", 1, Vector_inc(res.view[1]))

MatrixRows == Access("rows", 2, Matrix_rows(res.view[1]))

MatrixCols == Access("cols", 2, Matrix_cols(res.view[1]))

MatrixLeadDim == Access("lead_dim", 2, Matrix_lead_dim(res.view[1]))

VectorAsPtr == Access("as_ptr", 1, as_ptr(res.view[1]))

MatrixAsPtr == Access("as_ptr", 2, as_ptr(res.view[1]))

VectorAsMutPtr ==
    Access("as_mut_ptr", 1,
              IF res.mutable THEN ViewMut_as_mut_ptr(res.view[1])
                             ELSE View_as_mut_ptr(res.view[1]))

MatrixAsMutPtr ==
    Access("as_mut_ptr", 2,
              IF res.mutable THEN ViewMut_as_mut_ptr(res.view[1])
                             ELSE View_as_mut_ptr(res.view[1]))

\* the result (and the adapter's borrow) goes out of scope
Drop ==
    /\ pc = "returned"
    /\ pc' = "idle"
    /\ res' = NoRes
    /\ acc' = NoAcc
    /\ pre' = arr
    /\ UNCHANGED <<arr, calls>>

Next ==
    \/ BlasChecked
    \/ BlasViewChecked
    \/ BlasViewMutChecked
    \/ VectorLen
    \/ VectorInc
    \/ VectorAsPtr
    \/ VectorAsMutPtr
    \/ MatrixRows
    \/ MatrixCols
    \/ MatrixLeadDim
    \/ MatrixAsPtr
    \/ MatrixAsMutPtr
    \/ Drop

Spec == Init /\ [][Next]_vars

\* ----------------------------------------------------- claim vocabulary
ViewOps == {"blas_view_checked", "blas_view_mut_checked"}

Returned(ops) == pc = "returned" /\ res.op \in ops

\* some shape value or some stride value is larger than c_int::MAX
Exceeds(a) == \E k \in 1 .. Ndim(a) : a.shape[k] > CIntMax \/ a.strides[k] > CIntMax

\* every shape value and every stride value is a value of c_int
FitsCInt(a) ==
    \A k \in 1 .. Ndim(a) :
        /\ a.shape[k] <= CIntMax
        /\ a.strides[k] >= CIntMin
        /\ a.strides[k] <= CIntMax

Abs(x) == IF x < 0 THEN -x ELSE x

\* every shape value and every stride magnitude is at most c_int::MAX
MagnitudesFit(a) ==
    \A k \in 1 .. Ndim(a) : a.shape[k] <= CIntMax /\ Abs(a.strides[k]) <= CIntMax

\* the innermost axis is longer than 1 and its stride is not 1
InnerStrided(a) ==
    Ndim(a) >= 1 /\ a.shape[Ndim(a)] > 1 /\ a.strides[Ndim(a)] # 1

Adapter == res.view[1]

C2_InnerContiguity ==
    /\ (Returned(ViewOps) /\ Ndim(pre) = 2)
          => /\ InnerStrided(pre)
                  => (res.status = "IncompatibleLayout" /\ res.view = <<>>)
             /\ (pre.shape[2] <= 1 \/ pre.strides[2] = 1)
                  => res.status # "IncompatibleLayout"
    /\ (contiguous_check(View(arr)) = "Ok")
          <=> (\/ Ndim(arr) = 0
               \/ arr.shape[Ndim(arr)] <= 1
               \/ arr.strides[Ndim(arr)] = 1)

C2_Witness ==
    /\ Returned({"blas_view_mut_checked"})
    /\ Ndim(pre) = 2
    /\ pre.shape[2] = 3
    /\ pre.strides[2] = 2
    /\ res.status = "IncompatibleLayout"

\* ------------------------------------------------------------------- C3
\* C3: blas_checked on a rank-2 array whose innermost axis is longer than 1
\* with a stride other than 1, and whose shape and strides pass the range
\* check, succeeds; afterwards the array has its shape unchanged, the
\* row-major strides of that shape (innermost stride 1), and the same
\* elements in logical order as before the call; the adapter is a view of
\* the array as it is after the call.
C3_NormalizeKeepsOrder ==
    (Returned({"blas_checked"}) /\ Ndim(pre) = 2 /\ InnerStrided(pre) /\ ~Exceeds(pre))
        => /\ res.status = "Ok"
           /\ arr.shape = pre.shape
           /\ arr.strides = DefaultStrides(pre.shape)
           /\ arr.strides[2] = 1
           /\ Iter(arr) = Iter(pre)
           /\ res.view = <<View(arr)>>

\* a 3 x 2 matrix with inner stride 2, normalized
C3_Witness ==
    /\ Returned({"blas_checked"})
    /\ pre.shape = <<3, 2>>
    /\ pre.strides[2] = 2
    /\ res.status = "Ok"
    /\ arr.ptr # pre.ptr
    /\ arr.strides = <<2, 1>>

\* ------------------------------------------------------------------- C4
\* C4: the view entry points succeed on every array of rank 0 or 1 whose
\* shape and stride values are values of c_int, whatever the stride, and
\* the adapter of a rank-1 array reports len() = the axis length and
\* inc() = the axis stride.
C4_LowRankViews ==
    (Returned(ViewOps) /\ Ndim(pre) <= 1 /\ FitsCInt(pre))
        => /\ res.status = "Ok"
           /\ res.view = <<View(pre)>>
           /\ acc.name = "len" => (~acc.panicked /\ acc.val = <<pre.shape[1]>>)
           /\ acc.name = "inc" => (~acc.panicked /\ acc.val = <<pre.strides[1]>>)

C4_Witness ==
    /\ Returned({"blas_view_checked"})
    /\ Ndim(pre) = 1
    /\ pre.shape[1] = 3
    /\ pre.strides[1] = CIntMin
    /\ acc.name = "inc"
    /\ acc.val = <<CIntMin>>

\* ------------------------------------------------------------------- C5
\* C5: the range check accepts a view exactly when every shape value and
\* every stride magnitude is at most c_int::MAX, so for every adapter an
\* entry point returns the casts of its shape and stride values to c_int
\* keep the values.
C5_CastsKeepValues ==
    pc = "returned"
        => /\ (size_check(View(pre)) = "Ok") <=> MagnitudesFit(pre)
           /\ res.status = "Ok"
                 => \A k \in 1 .. Ndim(Adapter) :
                        /\ CastCInt(Adapter.shape[k]) = Adapter.shape[k]
                        /\ CastCInt(Adapter.strides[k]) = Adapter.strides[k]
           /\ (res.status = "Ok" /\ acc.name = "inc")
                 => acc.val = <<Adapter.strides[1]>>

\* ------------------------------------------------------------------- C6
\* C6: as_mut_ptr of a read-only adapter panics, for a vector and for a
\* matrix; as_mut_ptr of a mutable adapter does not panic and returns the
\* base pointer of the wrapped view, the pointer as_ptr returns.
C6_MutPtr ==
    (pc = "returned" /\ acc.name = "as_mut_ptr")
        => /\ ~res.mutable => (acc.panicked /\ acc.val = <<>>)
           /\ res.mutable => /\ ~acc.panicked
                             /\ acc.val = <<Adapter.ptr>>
                             /\ acc.val = as_ptr(Adapter).val
                             /\ acc.val = <<arr.ptr>>

C6_Witness ==
    /\ pc = "returned"
    /\ acc.name = "as_mut_ptr"
    /\ res.op = "blas_view_checked"
    /\ Ndim(Adapter) = 2
    /\ acc.panicked

\* ------------------------------------------------------------------- C7
\* C7: ensure_standard_layout leaves an array in standard layout as it is
\* (pointer, shape, strides, elements), so it is idempotent, and
\* blas_checked on a standard-layout array of any rank returns with the
\* array as it was before the call.
C7_NormalizeNoOp ==
    /\ (Returned({"blas_checked"}) /\ IsStandardLayout(pre)) => arr = pre
    /\ size_check(View(arr)) = "Ok"
          => /\ IsStandardLayout(arr) => ensure_standard_layout(arr) = arr
             /\ ensure_standard_layout(ensure_standard_layout(arr))
                    = ensure_standard_layout(arr)

\* the second blas_checked on a rank-3 array the first one normalized
C7_Witness ==
    /\ Returned({"blas_checked"})
    /\ calls = 2
    /\ Ndim(pre) = 3
    /\ pre.ptr = 1
    /\ IsStandardLayout(pre)
    /\ res.status = "Ok"
    /\ arr = pre

\* ------------------------------------------------------------------- C8
\* C8 as stated: blas_checked never returns IncompatibleLayout, and on an
\* array whose shape values are all <= c_int::MAX it returns a mutable
\* adapter.
C8_OnlyDimensionsMatter ==
    Returned({"blas_checked"})
        => /\ res.status # "IncompatibleLayout"
           /\ (\A k \in 1 .. Ndim(pre) : pre.shape[k] <= CIntMax)
                 => (res.status = "Ok" /\ res.mutable)

\* C8 amended: blas_checked never returns IncompatibleLayout; it returns
\* RangeLimited exactly when some shape value or some stride of the array
\* exceeds c_int::MAX, either as the array was given or (rank > 2) as the
\* call's normalization left it; in every other case it returns a mutable
\* adapter, a view of the array as it is after the call.
C8_FailsOnlyOnRange ==
    Returned({"blas_checked"})
        => /\ res.status \in {"Ok", "RangeLimited"}
           /\ (res.status = "RangeLimited") <=> (Exceeds(pre) \/ Exceeds(arr))
           /\ (Exceeds(arr) /\ ~Exceeds(pre)) => (Ndim(pre) > 2 /\ arr.ptr # pre.ptr)
           /\ res.status = "Ok" => (res.mutable /\ res.view = <<View(arr)>>)

\* all dimensions fit, a stride does not, and the call fails
C8_Witness ==
    /\ Returned({"blas_checked"})
    /\ Ndim(pre) = 2
    /\ \A k \in 1 .. Ndim(pre) : pre.shape[k] <= CIntMax /\ pre.shape[k] > 1
    /\ Exceeds(pre)
    /\ res.status = "RangeLimited"

\* ------------------------------------------------------------------- C9
\* C9: every rank-2 adapter an entry point returns wraps a view whose
\* axis 1 has length <= 1 or stride 1; lead_dim() does not fail its
\* assertion; rows(), cols() and lead_dim() are the axis-0 length, the
\* axis-1 length and the axis-0 stride; element (i, j) lies at offset
\* i * lead_dim() + j from the base pointer.
C9_MatrixDescriptor ==
    (pc = "returned" /\ res.status = "Ok" /\ Ndim(Adapter) = 2)
        => /\ Adapter.shape[2] <= 1 \/ Adapter.strides[2] = 1
           /\ acc.name = "rows" => acc.val = <<Adapter.shape[1]>>
           /\ acc.name = "cols" => acc.val = <<Adapter.shape[2]>>
           /\ acc.name = "lead_dim"
                 => /\ ~acc.panicked
                    /\ acc.val = <<Adapter.strides[1]>>
                    /\ \A i \in 0 .. Adapter.shape[1] - 1, j \in 0 .. Adapter.shape[2] - 1 :
                           Pos(Adapter, <<i, j>>) = i * acc.val[1] + j

\* ------------------------------------------------------------------ C10
\* C10: whenever blas_checked returns an error, the array (storage
\* identity, shape, strides, elements) is what it was before the call.
C10_AllOrNothing ==
    (Returned({"blas_checked"}) /\ res.status # "Ok") => arr = pre

====
